---- MODULE Spec2Model ----
(***************************************************************************)
(* Model of the batch path of src/sarvam_batch.py: the coordinator         *)
(* transcribe_folder_batch, one process_batch coroutine per group, and the *)
(* SarvamBatchSTT job lifecycle (initiate_job, upload_files, start_job,    *)
(* check_status, wait_for_completion, download_results) they drive.        *)
(*                                                                         *)
(* Scheduling is asyncio's: one thread, a coroutine runs from one await of *)
(* a network operation to the next. Each action below is one resumption of *)
(* one coroutine: it takes the response of the operation the coroutine is  *)
(* awaiting, runs the code up to the next network operation and issues it. *)
(* The vendor is the environment: every response is drawn with \E.         *)
(*                                                                         *)
(* Python values are records [t, v]: t is the type, v a sequence of        *)
(* strings. Texts of the job-state vocabulary are sequences of characters  *)
(* (so that str.lower is computed); every other text is a sequence of      *)
(* tokens, and an f-string is the concatenation of its parts.              *)
(* The Timestamp column (datetime.now) is left out of the rows.            *)
(***************************************************************************)
EXTENDS Integers, Sequences, FiniteSets, TLC

\* ---------------------------------------------------------------- bounds
MaxFiles == 3
MaxJobFiles == 2
MaxWait == 25
MaxPollInterval == 3
MaxPollWait == 6
MaxSplitFiles == 9
MaxSplitBatch == 6
MaxSegments == 2

\* ------------------------------------------------------- program constants
DefaultPollInterval == 10

\* ---------------------------------------------------------- Python values
PyStr(s) == [t |-> "str", v |-> s]
PyNone == [t |-> "none", v |-> <<>>]
PyInt(s) == [t |-> "int", v |-> s]
\* a key that the map does not hold
Absent == [t |-> "absent", v |-> <<>>]

\* bool(x): None, "" and 0 are false
Truthy(x) ==
    CASE x.t = "str" -> x.v # <<>>
      [] x.t = "int" -> x.v # <<"0">>
      [] OTHER -> FALSE

\* d.get(k): None for a missing key
Get(d, k) == IF d[k].t = "absent" THEN PyNone ELSE d[k]

\* d.get(k, default)
GetDefault(d, k, default) == IF d[k].t = "absent" THEN default ELSE d[k]

\* a or b
PyOr(a, b) == IF Truthy(a) THEN a ELSE b

\* str(x) inside an f-string
Str(x) ==
    CASE x.t = "none" -> <<"None">>
      [] OTHER -> x.v

UpperAlpha ==
    <<"A","B","C","D","E","F","G","H","I","J","K","L","M",
      "N","O","P","Q","R","S","T","U","V","W","X","Y","Z">>

LowerAlpha ==
    <<"a","b","c","d","e","f","g","h","i","j","k","l","m",
      "n","o","p","q","r","s","t","u","v","w","x","y","z">>

LowerChar(c) ==
    IF \E i \in 1..26 : UpperAlpha[i] = c
    THEN LowerAlpha[CHOOSE i \in 1..26 : UpperAlpha[i] = c]
    ELSE c

UpperChar(c) ==
    IF \E i \in 1..26 : LowerAlpha[i] = c
    THEN UpperAlpha[CHOOSE i \in 1..26 : LowerAlpha[i] = c]
    ELSE c

\* str.lower()
Lower(s) == [i \in 1..Len(s) |-> LowerChar(s[i])]

\* str.upper() and str.capitalize(): used to spell the vendor's states
Upper(s) == [i \in 1..Len(s) |-> UpperChar(s[i])]

Capitalize(s) == [i \in 1..Len(s) |-> IF i = 1 THEN UpperChar(s[i]) ELSE LowerChar(s[i])]

\* ------------------------------------------------- job-state vocabulary
W_completed == <<"c","o","m","p","l","e","t","e","d">>
W_complete == <<"c","o","m","p","l","e","t","e">>
W_success == <<"s","u","c","c","e","s","s">>
W_succeeded == <<"s","u","c","c","e","e","d","e","d">>
W_failed == <<"f","a","i","l","e","d">>
W_error == <<"e","r","r","o","r">>
W_failure == <<"f","a","i","l","u","r","e">>
W_timeout == <<"t","i","m","e","o","u","t">>
W_unknown == <<"u","n","k","n","o","w","n">>
W_running == <<"r","u","n","n","i","n","g">>

\* line 265
SuccessStates == {W_completed, W_complete, W_success, W_succeeded}

\* line 279
FailureStates == {W_failed, W_error, W_failure}


\* ------------------------------------------------------------ error texts
\* str(e) of a transport fault (aiohttp.ClientError, asyncio.TimeoutError)
FaultText == <<"Cannot connect to host">>

\* str(e) of the AttributeError / TypeError / JSON error a body of the wrong
\* shape raises
ShapeText == <<"unexpected body">>

\* str(e) of the OSError open() raises for a file that cannot be read
OpenText == <<"No such file">>

\* the text of a non-success response's body
VendorText == <<"quota exceeded">>

\* str(response.status) inside an f-string
StatusText(n) ==
    CASE n = 200 -> "200" [] n = 201 -> "201" [] n = 202 -> "202"
      [] n = 204 -> "204" [] n = 404 -> "404" [] n = 500 -> "500"

\* f"API Error {response.status}: {error_text}"
ApiError(n, text) == PyStr(<<"API Error ", StatusText(n), ": ">> \o text)

\* ------------------------------------------------------ vendor responses
\* A response is [fault, status, body]: fault is a transport error raised by
\* the request, status the HTTP status, body what the body decodes to.
Response(status, body) == [fault |-> FALSE, status |-> status, body |-> body]

Fault == [fault |-> TRUE, status |-> 0, body |-> "none"]

\* a response whose body carries data the code reads
DataResponse(status, body, data) ==
    [fault |-> FALSE, status |-> status, body |-> body, data |-> data]

\* job-create: a map with a job_id, a map without one, a body that is no map
CreateResponses ==
    {Fault, Response(500, "text")}
      \cup {Response(s, b) : s \in {200, 202}, b \in {"map_id", "map_noid", "list"}}

\* job-start
StartResponses ==
    {Fault, Response(500, "text")}
      \cup {Response(s, b) : s \in {200, 202}, b \in {"map", "notjson"}}

\* binary upload to a presigned target
PutResponses == {Fault} \cup {Response(s, "none") : s \in {200, 201, 204, 202, 500}}

\* a descriptor of a presigned URL, as upload_urls / download_urls hold it:
\* nothing, the URL itself, a map with "file_url", a map without it
UrlString == [t |-> "str", v |-> <<"https://blob/target">>]

UrlDict == [t |-> "dict", v |-> <<"https://blob/target">>]

UrlDictNoUrl == [t |-> "dict", v |-> <<>>]

UrlInfos == {Absent, UrlString, UrlDict, UrlDictNoUrl}

\* url_info.get("file_url") if isinstance(url_info, dict) else url_info
FileUrl(url_info) ==
    IF url_info.t = "dict"
    THEN (IF url_info.v = <<>> THEN PyNone ELSE PyStr(url_info.v))
    ELSE url_info

\* a non-empty dict is true
TruthyInfo(url_info) == url_info.t = "dict" \/ Truthy(url_info)

\* ------------------------------------------------------------------ rows
Row(f, language, transcript, diarized, error) ==
    [file |-> f, language |-> language, transcript |-> transcript,
     diarized |-> diarized, error |-> error]

\* the row of a file that failed: lines 328-336, 397-405, 408-416, 418-426, 429-437
ErrorRow(f, error) == Row(f, <<"error">>, <<>>, <<>>, error)

ErrorRows(files, error) == [i \in 1..Len(files) |-> ErrorRow(files[i], error)]

Success == PyStr(<<"Success">>)


\* ----------------------------------------------------------------- state
VARIABLES
    audio_files,     \* transcribe_folder_batch: the sorted list of files found
    batch_size,      \* transcribe_folder_batch: batch_size
    poll_interval,   \* wait_for_completion: poll_interval
    max_wait,        \* wait_for_completion: max_wait
    main_pc,         \* transcribe_folder_batch: "start", "gather", "returned", "raised"
    batches,         \* line 474
    all_results,     \* line 487
    finish_order,    \* the groups whose coroutine has ended, in the order they ended
    pc,              \* per group: the operation its process_batch is awaiting
    calls,           \* per group: the vendor requests issued so far, in order
    init_result,     \* per group: what initiate_job returned
    upload_result,   \* per group: what upload_files returned
    start_result,    \* per group: what start_job returned
    completion_result, \* per group: what wait_for_completion returned
    upload_urls,     \* per group: upload_files' upload_urls
    idx,             \* per group: the position of the file a loop is at
    elapsed,         \* per group: wait_for_completion's elapsed
    status_result,   \* per group: wait_for_completion's status_result
    status,          \* per group: wait_for_completion's status
    download_urls,   \* per group: process_batch's download_urls
    results          \* per group: process_batch's results

inputVars == <<audio_files, batch_size, poll_interval, max_wait>>

mainVars == <<main_pc, batches, all_results, finish_order>>

groupVars ==
    <<pc, calls, init_result, upload_result, start_result, completion_result,
      upload_urls, idx, elapsed, status_result, status, download_urls, results>>

vars == <<inputVars, mainVars, groupVars>>

Groups == DOMAIN batches

\* a result the call has not produced yet
NoResult == [success |-> FALSE, job_id |-> Absent, error |-> Absent]

\* wait_for_completion has not returned: no map at all, unlike a returned
\* payload that holds neither "status" nor "error"
NoCompletion == [status |-> [t |-> "unset", v |-> <<>>], error |-> Absent]

\* no status payload read
NoPayload ==
    [shape |-> "none", status |-> Absent, job_state |-> Absent, state |-> Absent,
     error |-> Absent, job_details |-> "list"]

\* the state of group g's process_batch coroutine
Local(g) ==
    [files |-> batches[g], pc |-> pc[g], calls |-> calls[g],
     init_result |-> init_result[g], upload_result |-> upload_result[g],
     start_result |-> start_result[g], completion_result |-> completion_result[g],
     upload_urls |-> upload_urls[g], idx |-> idx[g], elapsed |-> elapsed[g],
     status_result |-> status_result[g], status |-> status[g], download_urls |-> download_urls[g],
     results |-> results[g]]

\* the state of a process_batch coroutine that has not run yet
NewLocal(files) ==
    [files |-> files, pc |-> "new", calls |-> <<>>,
     init_result |-> NoResult, upload_result |-> NoResult,
     start_result |-> NoResult, completion_result |-> NoCompletion,
     upload_urls |-> <<>>, idx |-> 0, elapsed |-> 0,
     status_result |-> NoPayload, status |-> Absent, download_urls |-> <<>>, results |-> <<>>]

SetLocal(g, L) ==
    /\ pc' = [pc EXCEPT ![g] = L.pc]
    /\ calls' = [calls EXCEPT ![g] = L.calls]
    /\ init_result' = [init_result EXCEPT ![g] = L.init_result]
    /\ upload_result' = [upload_result EXCEPT ![g] = L.upload_result]
    /\ start_result' = [start_result EXCEPT ![g] = L.start_result]
    /\ completion_result' = [completion_result EXCEPT ![g] = L.completion_result]
    /\ upload_urls' = [upload_urls EXCEPT ![g] = L.upload_urls]
    /\ idx' = [idx EXCEPT ![g] = L.idx]
    /\ elapsed' = [elapsed EXCEPT ![g] = L.elapsed]
    /\ status_result' = [status_result EXCEPT ![g] = L.status_result]
    /\ status' = [status EXCEPT ![g] = L.status]
    /\ download_urls' = [download_urls EXCEPT ![g] = L.download_urls]
    /\ results' = [results EXCEPT ![g] = L.results]

\* a vendor request: the operation, the job id it names, the file it is for
Call(op, job, file) == [op |-> op, job |-> job, file |-> file]

\* the coroutine issues request c and awaits it at p
Issue(L, p, c) == [L EXCEPT !.pc = p, !.calls = Append(@, c)]

\* process_batch returns rows (line 336, line 440): its frame is gone
Return(L, rows) ==
    [L EXCEPT !.pc = "done", !.results = rows, !.upload_urls = <<>>, !.idx = 0,
              !.elapsed = 0, !.status_result = NoPayload, !.status = Absent,
              !.download_urls = <<>>]

\* an exception leaves process_batch
Raise(L) ==
    [L EXCEPT !.pc = "raised", !.results = <<>>, !.upload_urls = <<>>, !.idx = 0,
              !.elapsed = 0, !.status_result = NoPayload, !.status = Absent,
              !.download_urls = <<>>]


\* -------------------------------------------------- Result Formatter
\* a diarized segment: speaker_id is a Python value (Absent when the segment
\* has no such key), start_time_seconds is kept in tenths of a second
Entry(speaker_id, transcript, tenths) ==
    [speaker_id |-> speaker_id, transcript |-> transcript, tenths |-> tenths]

Digit(n) == <<"0","1","2","3","4","5","6","7","8","9">>[n + 1]

\* f"{start_time:.1f}"
Fixed1(tenths) == <<Digit(tenths \div 10), ".", Digit(tenths % 10)>>

\* entry.get("speaker_id", "UNKNOWN"), line 305
SpeakerIdOf(e) ==
    IF e.speaker_id.t = "absent" THEN PyStr(<<"UNKNOWN">>) ELSE e.speaker_id

\* faulty variant: the roster is looked up from "1" on ("1" is the customer)
SpeakerLabel_from_one(speaker_id) ==
    CASE speaker_id = PyStr(<<"1">>) -> <<"Customer">>
      [] speaker_id = PyStr(<<"2">>) -> <<"Agent">>
      [] OTHER -> <<"Speaker ">> \o Str(speaker_id)

\* speaker_map.get(speaker_id, f"Speaker {speaker_id}"), lines 293-306: the
\* keys of speaker_map are strings, a label is kept as its words
SpeakerLabel(speaker_id) ==
    CASE speaker_id = PyStr(<<"0">>) -> <<"Customer">>
      [] speaker_id = PyStr(<<"1">>) -> <<"Agent">>
      [] speaker_id = PyStr(<<"2">>) -> <<"Speaker ", "3">>
      [] speaker_id = PyStr(<<"3">>) -> <<"Speaker ", "4">>
      [] speaker_id = PyStr(<<"4">>) -> <<"Speaker ", "5">>
      [] speaker_id = PyStr(<<"5">>) -> <<"Speaker ", "6">>
      [] speaker_id = PyStr(<<"6">>) -> <<"Speaker ", "7">>
      [] speaker_id = PyStr(<<"7">>) -> <<"Speaker ", "8">>
      [] OTHER -> <<"Speaker ">> \o Str(speaker_id)

\* line 310
FormatLine(e) ==
    <<"[">> \o Fixed1(e.tenths) \o <<"s] ">> \o SpeakerLabel(SpeakerIdOf(e))
      \o <<": ">> \o e.transcript

RECURSIVE JoinLines(_)
\* "\n".join(formatted)
JoinLines(lines) ==
    IF lines = <<>> THEN <<>>
    ELSE IF Len(lines) = 1 THEN lines[1]
    ELSE lines[1] \o <<"\n">> \o JoinLines(Tail(lines))

format_diarized_transcript(diarized_data) ==
    JoinLines([i \in 1..Len(diarized_data) |-> FormatLine(diarized_data[i])])

\* --------------------------------------------------- artifact download
\* What the GET of a presigned result URL yields. The body is one of: text
\* that is no JSON, JSON that is no map, a transcript record without
\* diarized segments, with an empty list of them, with segments, with
\* segments that are no maps, with "entries" a text instead of a list.
\* A response with segments carries them as data.
ArtifactBodies ==
    {"notjson", "list", "plain", "diar_empty", "diar", "diar_bad", "diar_text"}

SampleEntries ==
    <<Entry(PyStr(<<"0">>), <<"hello">>, 0), Entry(PyStr(<<"1">>), <<"namaste">>, 15)>>

ArtifactResponses ==
    {Fault, Response(404, "text"), Response(202, "plain"),
     DataResponse(200, "diar", SampleEntries)}
      \cup {Response(200, b) : b \in ArtifactBodies \ {"diar"}}

\* diarized_obj.get("entries", []), line 383, when it is a list of maps
EntriesOf(r) == IF r.body = "diar" THEN r.data ELSE <<>>

\* `if diarized_data`, line 384: the formatter is called for a value that is
\* true, a non-empty list or a non-empty text
FormatAttempted(r) ==
    /\ r.body \in {"diar", "diar_bad", "diar_text"}
    /\ r.body = "diar" => r.data # <<>>

\* faulty variant: an artifact without segments is an error
ArtifactRow_segments_required(f, r) ==
    IF r.fault THEN ErrorRow(f, PyStr(<<"Download error: ">> \o FaultText))
    ELSE IF r.status = 200
    THEN IF r.body = "diar" /\ r.data # <<>>
         THEN Row(f, <<"hi-IN">>, <<"hello namaste">>,
                  format_diarized_transcript(EntriesOf(r)), Success)
         ELSE ErrorRow(f, PyStr(<<"Download error: ">> \o ShapeText))
    ELSE ErrorRow(f, PyStr(<<"Failed to download result: ", StatusText(r.status)>>))

\* faulty variant: the status 202 is taken as a fetched artifact, like 200
ArtifactRow_accepts_202(f, r) ==
    IF r.fault THEN ErrorRow(f, PyStr(<<"Download error: ">> \o FaultText))
    ELSE IF r.status \in {200, 202}
    THEN IF r.body = "notjson"
              \/ (FormatAttempted(r) /\ r.body \in {"diar_bad", "diar_text"})
         THEN ErrorRow(f, PyStr(<<"Download error: ">> \o ShapeText))
         ELSE Row(f,
                  IF r.body = "list" THEN <<"unknown">> ELSE <<"hi-IN">>,
                  IF r.body = "list" THEN <<>> ELSE <<"hello namaste">>,
                  IF FormatAttempted(r)
                  THEN format_diarized_transcript(EntriesOf(r)) ELSE <<>>,
                  Success)
    ELSE ErrorRow(f, PyStr(<<"Failed to download result: ", StatusText(r.status)>>))

\* lines 369-416: the row of a file whose artifact was requested
ArtifactRow(f, r) ==
    IF r.fault THEN ErrorRow(f, PyStr(<<"Download error: ">> \o FaultText))
    ELSE IF r.status = 200
    THEN IF r.body = "notjson"
              \/ (FormatAttempted(r) /\ r.body \in {"diar_bad", "diar_text"})
         THEN ErrorRow(f, PyStr(<<"Download error: ">> \o ShapeText))
         ELSE Row(f,
                  IF r.body = "list" THEN <<"unknown">> ELSE <<"hi-IN">>,
                  IF r.body = "list" THEN <<>> ELSE <<"hello namaste">>,
                  IF FormatAttempted(r)
                  THEN format_diarized_transcript(EntriesOf(r)) ELSE <<>>,
                  Success)
    ELSE ErrorRow(f, PyStr(<<"Failed to download result: ", StatusText(r.status)>>))

\* download_urls.get(json_file_id, {}), line 363
GetInfo(urls, i) == IF i \in DOMAIN urls THEN urls[i] ELSE Absent

UrlAt(urls, i) ==
    LET url_info == IF GetInfo(urls, i).t = "absent" THEN UrlDictNoUrl ELSE urls[i]
    IN FileUrl(url_info)

NoUrlRow(f) == ErrorRow(f, PyStr(<<"No download URL found">>))

\* faulty variant: the artifact is requested whether or not there is a URL
fetch_loop_always_get(L, i) ==
    IF i > Len(L.files) THEN Return(L, L.results)
    ELSE Issue([L EXCEPT !.idx = i], "get", Call("get", Absent, L.files[i]))

RECURSIVE fetch_loop(_, _)
\* lines 358-426 from position i on, up to the next GET or the return
fetch_loop(L, i) ==
    IF i > Len(L.files) THEN Return(L, L.results)
    ELSE IF Truthy(UrlAt(L.download_urls, i))
    THEN Issue([L EXCEPT !.idx = i], "get", Call("get", Absent, L.files[i]))
    ELSE fetch_loop([L EXCEPT !.results = Append(@, NoUrlRow(L.files[i]))], i + 1)

\* faulty variant: an artifact that fails ends the loop and fails the whole job
fetch_after_get_abort(L, r) ==
    LET row == ArtifactRow(L.files[L.idx], r)
    IN IF row.error # Success
       THEN Return(L, ErrorRows(L.files, row.error))
       ELSE fetch_loop([L EXCEPT !.results = Append(@, row)], L.idx + 1)

\* faulty variant: the formatter keeps its list of lines between calls, so
\* a text starts with the lines of the text formatted before it
fetch_after_get_keeps_lines(L, r) ==
    LET row == ArtifactRow(L.files[L.idx], r)
        before == IF L.results = <<>> THEN <<>>
                  ELSE L.results[Len(L.results)].diarized
        kept == IF before # <<>> /\ row.diarized # <<>>
                THEN before \o <<"\n">> ELSE <<>>
    IN fetch_loop([L EXCEPT !.results =
                       Append(@, [row EXCEPT !.diarized = kept \o @])],
                  L.idx + 1)

\* lines 369-416 and the next turn of the loop
fetch_after_get(L, r) ==
    fetch_loop([L EXCEPT !.results = Append(@, ArtifactRow(L.files[L.idx], r))],
               L.idx + 1)

\* ------------------------------------------------ process_batch, 345-440
Completion(st, error) == [status |-> st, error |-> error]

\* faulty variant: one row for the failed job instead of one row per file
JobErrorRows_one_row(files, cr) ==
    <<ErrorRow(files[1],
               GetDefault(cr, "error", PyStr(<<"Job ">> \o Str(Get(cr, "status")))))>>

\* the rows of a job that did not complete, lines 428-437
JobErrorRows(files, cr) ==
    ErrorRows(files,
              GetDefault(cr, "error", PyStr(<<"Job ">> \o Str(Get(cr, "status")))))

\* cr is what wait_for_completion returned; shape and urls describe its
\* "results": a map (urls its download_urls), a map whose download_urls is
\* no map, or no map at all
process_batch_completion(L, cr, shape, urls) ==
    LET L1 == [L EXCEPT !.completion_result = cr, !.elapsed = 0,
                         !.status_result = NoPayload, !.status = Absent]
    IN IF Get(cr, "status") = PyStr(W_completed)
       THEN IF shape \in {"list", "map_bad_urls"}
            THEN Raise(L1)
            ELSE fetch_loop([L1 EXCEPT !.download_urls = urls], 1)
       ELSE Return(L1, JobErrorRows(L.files, cr))


\* ------------------------------------------------------------ job status
\* a status payload: a map with some of the keys status, job_state, state,
\* error, and job_details either a list of output descriptors ("list", also
\* when missing) or a value download_results cannot walk ("bad")
Payload(a, b, c, e, jd) ==
    [shape |-> "map", status |-> a, job_state |-> b, state |-> c, error |-> e,
     job_details |-> jd]

\* a JSON body that is no map
NonMapPayload ==
    [shape |-> "list", status |-> Absent, job_state |-> Absent, state |-> Absent,
     error |-> Absent, job_details |-> "list"]

\* the spellings of a word the vendor may use
Spellings(w) == {w, Upper(w), Capitalize(w)}

StateTexts ==
    UNION {Spellings(w) : w \in SuccessStates \cup FailureStates}
      \cup {W_running, W_unknown}

\* the values of "status" when it is the only state key
StatusValues == {PyStr(s) : s \in StateTexts} \cup {PyInt(<<"3">>), PyNone}

\* the values of each state key when several are present
KeyValues ==
    {Absent, PyStr(<<>>), PyStr(Capitalize(W_completed)), PyStr(W_failed)}

StatusPayloads ==
    {Payload(a, b, c, Absent, "list") : a \in KeyValues, b \in KeyValues, c \in KeyValues}
      \cup {Payload(a, Absent, Absent, e, jd) :
              a \in StatusValues, e \in {Absent, PyStr(VendorText)}, jd \in {"list", "bad"}}
      \cup {NonMapPayload}

StatusFault == [fault |-> TRUE, status |-> 0, body |-> "none", data |-> NonMapPayload]

StatusResponses ==
    {StatusFault, DataResponse(500, "text", NonMapPayload),
     DataResponse(200, "notjson", NonMapPayload),
     DataResponse(202, "json", Payload(PyStr(W_running), Absent, Absent, Absent, "list"))}
      \cup {DataResponse(200, "json", p) : p \in StatusPayloads}

\* faulty variant: a request that failed is reported as a job still running,
\* so that the job is polled again
check_status_retries(r) ==
    IF r.fault THEN Payload(PyStr(W_running), Absent, Absent, PyStr(FaultText), "list")
    ELSE IF r.status \in {200, 202}
    THEN IF r.body = "notjson"
         THEN Payload(PyStr(W_running), Absent, Absent, PyStr(ShapeText), "list")
         ELSE r.data
    ELSE Payload(PyStr(W_running), Absent, Absent, PyStr(VendorText), "list")

\* check_status, lines 181-202: the payload it returns
check_status(r) ==
    IF r.fault THEN Payload(PyStr(W_error), Absent, Absent, PyStr(FaultText), "list")
    ELSE IF r.status \in {200, 202}
    THEN IF r.body = "notjson"
         THEN Payload(PyStr(W_error), Absent, Absent, PyStr(ShapeText), "list")
         ELSE r.data
    ELSE Payload(PyStr(W_error), Absent, Absent, PyStr(VendorText), "list")

\* faulty variant: the keys are read in the opposite order
JobState_reversed(payload) ==
    PyOr(Get(payload, "state"),
         PyOr(Get(payload, "job_state"),
              PyOr(Get(payload, "status"), PyStr(W_unknown))))

\* lines 255-260: the first non-empty of status, job_state, state, else "unknown"
JobState(payload) ==
    PyOr(Get(payload, "status"),
         PyOr(Get(payload, "job_state"),
              PyOr(Get(payload, "state"), PyStr(W_unknown))))

\* faulty variant: the state is compared as spelled, without lower()
IsSuccessState_as_spelled(st) == st.v \in SuccessStates

\* line 265
IsSuccessState(st) == Lower(st.v) \in SuccessStates

\* faulty variant: a state that is not known ends the polling as a failure
IsFailureState_or_unknown(st) ==
    Lower(st.v) \in FailureStates \cup {W_unknown}

\* line 279
IsFailureState(st) == Lower(st.v) \in FailureStates

\* ------------------------------------------------------ download-files
DownloadFault == [fault |-> TRUE, status |-> 0, body |-> "none", data |-> <<>>]

\* the body is a map whose download_urls is data (one descriptor per output
\* "<idx>.json", possibly none), a map whose download_urls is no map, JSON
\* that is no map, or no JSON
DownloadResponses(n) ==
    {DownloadFault, DataResponse(500, "text", <<>>)}
      \cup {DataResponse(s, b, <<>>) :
              s \in {200, 202}, b \in {"map_bad_urls", "list", "notjson"}}
      \cup {DataResponse(200, "map", u) : u \in [1..n -> UrlInfos]}

JobId(L) == L.init_result.job_id

Failure(error) == [success |-> FALSE, job_id |-> Absent, error |-> error]

Ok(job_id) == [success |-> TRUE, job_id |-> job_id, error |-> Absent]

\* download_results, lines 228-245: what it returns for response r
download_results(r) ==
    IF r.fault THEN Failure(PyStr(FaultText))
    ELSE IF r.status \in {200, 202}
    THEN IF r.body = "notjson" THEN Failure(PyStr(ShapeText)) ELSE Ok(Absent)
    ELSE Failure(ApiError(r.status, VendorText))

\* lines 274-278
DownloadFailed(res) ==
    Completion(PyStr(W_error), PyStr(<<"Download failed: ">> \o Str(Get(res, "error"))))

\* faulty variant: a download-files request that failed is taken as a
\* completed job without download URLs
wait_after_download_ignores_failure(L, r) ==
    LET res == download_results(r)
    IN IF res.success
       THEN process_batch_completion(L, Completion(PyStr(W_completed), Absent),
                                     r.body, r.data)
       ELSE process_batch_completion(L, Completion(PyStr(W_completed), Absent),
                                     "map", <<>>)

\* lines 268-278, from the response of the download-files request on
wait_after_download(L, r) ==
    LET res == download_results(r)
    IN IF res.success
       THEN process_batch_completion(L, Completion(PyStr(W_completed), Absent),
                                     r.body, r.data)
       ELSE process_batch_completion(L, DownloadFailed(res), "none", <<>>)

\* faulty variant: a state that is not terminal is polled again at once,
\* without the sleep
wait_after_status_polls_at_once(L, r) ==
    LET payload == check_status(r)
    IN IF payload.shape # "map" THEN Raise(L)
       ELSE LET st == JobState(payload)
            IN IF st.t # "str" THEN Raise(L)
               ELSE IF IsSuccessState(st)
               THEN IF payload.job_details = "bad"
                    THEN process_batch_completion(
                             L, DownloadFailed(Failure(PyStr(ShapeText))), "none", <<>>)
                    ELSE Issue([L EXCEPT !.status_result = payload, !.status = st],
                               "download_results",
                               Call("download", JobId(L), 0))
               ELSE IF IsFailureState(st)
               THEN process_batch_completion(
                        L, Completion(payload.status, payload.error),
                        "none", <<>>)
               ELSE Issue([L EXCEPT !.status_result = payload, !.status = st],
                          "check_status", Call("status", JobId(L), 0))

\* lines 252-282, from the response of the status request on
wait_after_status(L, r) ==
    LET payload == check_status(r)
    IN IF payload.shape # "map" THEN Raise(L)
       ELSE LET st == JobState(payload)
            IN IF st.t # "str" THEN Raise(L)
               ELSE IF IsSuccessState(st)
               THEN IF payload.job_details = "bad"
                    THEN process_batch_completion(
                             L, DownloadFailed(Failure(PyStr(ShapeText))), "none", <<>>)
                    ELSE Issue([L EXCEPT !.status_result = payload, !.status = st],
                               "download_results",
                               Call("download", JobId(L), 0))
               ELSE IF IsFailureState(st)
               THEN process_batch_completion(
                        L, Completion(payload.status, payload.error),
                        "none", <<>>)
               ELSE [L EXCEPT !.pc = "sleep", !.status_result = payload,
                              !.status = st]

\* line 286
TimedOut == Completion(PyStr(W_timeout), PyStr(<<"Job timed out">>))

\* faulty variant: the loop test is elapsed <= max_wait
wait_loop_inclusive(L) ==
    IF L.elapsed <= max_wait
    THEN Issue(L, "check_status", Call("status", JobId(L), 0))
    ELSE process_batch_completion(L, TimedOut, "none", <<>>)

\* line 251: the loop test, then the next status request or the timeout
wait_loop(L) ==
    IF L.elapsed < max_wait
    THEN Issue(L, "check_status", Call("status", JobId(L), 0))
    ELSE process_batch_completion(L, TimedOut, "none", <<>>)

\* lines 282-283
wait_after_sleep(L) == wait_loop([L EXCEPT !.elapsed = @ + poll_interval])

\* lines 249-251
wait_for_completion(L) == wait_loop([L EXCEPT !.elapsed = 0])


\* ---------------------------------------------- process_batch, 324-342
\* lines 326-342: submit_batch has returned submit_result
process_batch_after_submit(L, submit_result) ==
    IF ~submit_result.success
    THEN Return(L, ErrorRows(L.files,
                             GetDefault(submit_result, "error",
                                        PyStr(<<"Submission failed">>))))
    ELSE wait_for_completion(L)

\* ------------------------------------------------------------ start_job
\* start_job, lines 132-157: what it returns for response r
start_job(r) ==
    IF r.fault THEN Failure(PyStr(FaultText))
    ELSE IF r.status \in {200, 202}
    THEN IF r.body = "notjson" THEN Failure(PyStr(ShapeText)) ELSE Ok(Absent)
    ELSE Failure(ApiError(r.status, VendorText))

\* faulty variant: the result of start_job is not tested, the job is polled
submit_after_start_unchecked(L, r) ==
    process_batch_after_submit([L EXCEPT !.start_result = start_job(r)], Ok(JobId(L)))

\* submit_batch, lines 174-179, from the response of the start request on
submit_after_start(L, r) ==
    LET res == start_job(r)
        L1 == [L EXCEPT !.start_result = res]
    IN IF ~res.success
       THEN process_batch_after_submit(L1, Failure(Get(res, "error")))
       ELSE process_batch_after_submit(L1, Ok(JobId(L)))

\* --------------------------------------------------------- upload_files
\* faulty variant: the result of upload_files is not tested, the job is started
submit_after_upload_unchecked(L, res) ==
    Issue([L EXCEPT !.upload_result = res, !.upload_urls = <<>>, !.idx = 0],
          "start_job", Call("start", JobId(L), 0))

\* submit_batch, lines 169-174: upload_files has returned res
submit_after_upload(L, res) ==
    LET L1 == [L EXCEPT !.upload_result = res, !.upload_urls = <<>>,
                         !.idx = 0]
    IN IF ~res.success
       THEN process_batch_after_submit(L1, Failure(Get(res, "error")))
       ELSE Issue(L1, "start_job", Call("start", JobId(L), 0))

\* lines 97-108: file i has a presigned target
HasTarget(urls, i) == TruthyInfo(urls[i]) /\ Truthy(FileUrl(urls[i]))

\* the first position from i on whose file has a target; 0 when none has
NextTarget(urls, i) ==
    IF \E j \in i..Len(urls) : HasTarget(urls, j)
    THEN CHOOSE j \in i..Len(urls) :
             HasTarget(urls, j) /\ \A k \in i..(j - 1) : ~HasTarget(urls, k)
    ELSE 0

\* lines 95-123 from position i on, up to the next PUT or the return;
\* readable: open() of the next file to upload succeeds
upload_loop(L, i, readable) ==
    LET j == NextTarget(L.upload_urls, i)
    IN IF j = 0 THEN submit_after_upload(L, Ok(Absent))
       ELSE IF ~readable THEN submit_after_upload(L, Failure(PyStr(OpenText)))
       ELSE Issue([L EXCEPT !.idx = j], "put", Call("put", Absent, L.files[j]))

\* lines 113-120 from the response of the PUT on: a non-success status is
\* logged, a transport fault is an exception the handler of line 128 takes
upload_after_put(L, r, readable) ==
    IF r.fault THEN submit_after_upload(L, Failure(PyStr(FaultText)))
    ELSE upload_loop(L, L.idx + 1, readable)

RegisterFault == [fault |-> TRUE, status |-> 0, body |-> "none", data |-> <<>>]

\* file-registration for a group of n files: the body is a map whose
\* upload_urls is data (one descriptor per file name, possibly none, none at
\* all when the key is missing or empty), a map whose upload_urls is a
\* non-empty value that is no map, JSON that is no map, or no JSON
RegisterResponses(n) ==
    {RegisterFault, DataResponse(500, "text", <<>>)}
      \cup {DataResponse(s, b, <<>>) :
              s \in {200, 202}, b \in {"map_bad_urls", "list", "notjson"}}
      \cup {DataResponse(200, "map", u) : u \in [1..n -> UrlInfos]}

\* not upload_urls, line 90
NoUploadUrls(urls) == \A i \in DOMAIN urls : urls[i].t = "absent"

\* faulty variant: a response without upload targets fails the registration
upload_after_register_requires_urls(L, r, readable) ==
    IF r.fault THEN submit_after_upload(L, Failure(PyStr(FaultText)))
    ELSE IF r.status \in {200, 202}
    THEN IF r.body # "map" THEN submit_after_upload(L, Failure(PyStr(ShapeText)))
         ELSE IF NoUploadUrls(r.data)
         THEN submit_after_upload(L, Failure(PyStr(<<"No upload URLs">>)))
         ELSE upload_loop([L EXCEPT !.upload_urls = r.data], 1, readable)
    ELSE submit_after_upload(L, Failure(ApiError(r.status, VendorText)))

\* upload_files, lines 77-130, from the response of the registration on
upload_after_register(L, r, readable) ==
    IF r.fault THEN submit_after_upload(L, Failure(PyStr(FaultText)))
    ELSE IF r.status \in {200, 202}
    THEN IF r.body # "map" THEN submit_after_upload(L, Failure(PyStr(ShapeText)))
         ELSE IF NoUploadUrls(r.data) THEN submit_after_upload(L, Ok(Absent))
         ELSE upload_loop([L EXCEPT !.upload_urls = r.data], 1, readable)
    ELSE submit_after_upload(L, Failure(ApiError(r.status, VendorText)))

\* --------------------------------------------------------- initiate_job
\* the job identifier the vendor issues
VendorJobId == PyStr(<<"job-1">>)

\* initiate_job, lines 23-57: what it returns for response r
initiate_job(r) ==
    IF r.fault THEN Failure(PyStr(FaultText))
    ELSE IF r.status \in {200, 202}
    THEN IF r.body = "list" THEN Failure(PyStr(ShapeText))
         ELSE Ok(IF r.body = "map_id" THEN VendorJobId ELSE PyNone)
    ELSE Failure(ApiError(r.status, VendorText))

\* faulty variant: the result of initiate_job is not tested, the job goes on
submit_after_initiate_unchecked(L, r) ==
    LET res == initiate_job(r)
    IN Issue([L EXCEPT !.init_result = res], "upload_files",
             Call("register", res.job_id, 0))

\* submit_batch, lines 162-169, from the response of the create request on
submit_after_initiate(L, r) ==
    LET res == initiate_job(r)
        L1 == [L EXCEPT !.init_result = res]
    IN IF ~res.success
       THEN process_batch_after_submit(L1, Failure(Get(res, "error")))
       ELSE Issue(L1, "upload_files", Call("register", res.job_id, 0))

\* process_batch up to its first request, lines 321-324 and 162
process_batch_begin(L) == Issue(L, "initiate_job", Call("create", Absent, 0))


\* ---------------------------------------------- transcribe_folder_batch
\* len(range(0, n, batch_size)) for batch_size >= 1
NumBatches(n, bs) == Cardinality({i \in 0..(n - 1) : i % bs = 0})

Min(a, b) == IF a < b THEN a ELSE b

\* faulty variant: the files after the last full group are left out
Split_full_groups(files, bs) ==
    [k \in 1..(Len(files) \div bs) |->
        SubSeq(files, (k - 1) * bs + 1, k * bs)]

\* line 474
Split(files, bs) ==
    [k \in 1..NumBatches(Len(files), bs) |->
        SubSeq(files, (k - 1) * bs + 1, Min(k * bs, Len(files)))]

RECURSIVE Flatten(_)
\* lines 487-489
Flatten(batch_results) ==
    IF batch_results = <<>> THEN <<>>
    ELSE Head(batch_results) \o Flatten(Tail(batch_results))

\* the files found: n distinct paths in sorted order, line 461
Files(n) == [i \in 1..n |-> i]

\* the batch sizes of the runs with several groups
BatchSizes == {2, 3}

InitState(files, bs, p, w) ==
    /\ audio_files = files
    /\ batch_size = bs
    /\ poll_interval = p
    /\ max_wait = w
    /\ main_pc = "start"
    /\ batches = <<>>
    /\ all_results = <<>>
    /\ pc = <<>>
    /\ calls = <<>>
    /\ init_result = <<>>
    /\ upload_result = <<>>
    /\ start_result = <<>>
    /\ completion_result = <<>>
    /\ upload_urls = <<>>
    /\ idx = <<>>
    /\ elapsed = <<>>
    /\ status_result = <<>>
    /\ finish_order = <<>>
    /\ status = <<>>
    /\ download_urls = <<>>
    /\ results = <<>>

\* a folder of up to MaxFiles files, split in at most two groups
Init ==
    \E n \in 0..MaxFiles, bs \in BatchSizes :
        InitState(Files(n), bs, DefaultPollInterval, MaxWait)

\* one job of up to MaxJobFiles files
InitJob ==
    \E n \in 0..MaxJobFiles :
        InitState(Files(n), MaxJobFiles, DefaultPollInterval, MaxWait)

\* at most one file, so one job, polled at interval p for at most w seconds
PollParams ==
    {<<DefaultPollInterval, MaxWait>>}
      \cup {<<p, w>> : p \in 1..MaxPollInterval, w \in 0..MaxPollWait}

InitPoll ==
    \E n \in 0..1, pw \in PollParams : InitState(Files(n), 1, pw[1], pw[2])

\* a folder of up to MaxSplitFiles files and a batch size of 1..MaxSplitBatch
InitSplit ==
    \E n \in 0..MaxSplitFiles, bs \in 1..MaxSplitBatch :
        InitState(Files(n), bs, DefaultPollInterval, MaxWait)

\* lines 463-465: no audio file found
return_no_files ==
    /\ main_pc = "start"
    /\ audio_files = <<>>
    /\ main_pc' = "returned"
    /\ UNCHANGED <<inputVars, batches, all_results, finish_order, groupVars>>

\* lines 474-484: split, create one process_batch coroutine per batch, gather
launch ==
    /\ main_pc = "start"
    /\ audio_files # <<>>
    /\ main_pc' = "gather"
    /\ batches' = Split(audio_files, batch_size)
    /\ LET new == [g \in DOMAIN batches' |-> NewLocal(batches'[g])]
       IN /\ pc' = [g \in DOMAIN new |-> new[g].pc]
          /\ calls' = [g \in DOMAIN new |-> new[g].calls]
          /\ init_result' = [g \in DOMAIN new |-> new[g].init_result]
          /\ upload_result' = [g \in DOMAIN new |-> new[g].upload_result]
          /\ start_result' = [g \in DOMAIN new |-> new[g].start_result]
          /\ completion_result' = [g \in DOMAIN new |-> new[g].completion_result]
          /\ upload_urls' = [g \in DOMAIN new |-> new[g].upload_urls]
          /\ idx' = [g \in DOMAIN new |-> new[g].idx]
          /\ elapsed' = [g \in DOMAIN new |-> new[g].elapsed]
          /\ status_result' = [g \in DOMAIN new |-> new[g].status_result]
          /\ status' = [g \in DOMAIN new |-> new[g].status]
          /\ download_urls' = [g \in DOMAIN new |-> new[g].download_urls]
          /\ results' = [g \in DOMAIN new |-> new[g].results]
    /\ UNCHANGED <<inputVars, all_results, finish_order>>

\* one resumption of group g's coroutine, from L to the state next
Resume(g, next) ==
    /\ SetLocal(g, next)
    /\ finish_order' = IF next.pc \in {"done", "raised"}
                       THEN Append(finish_order, g) ELSE finish_order
    /\ UNCHANGED <<inputVars, main_pc, batches, all_results>>

\* the event loop runs the coroutine for the first time
task_start(g) ==
    /\ pc[g] = "new"
    /\ Resume(g, process_batch_begin(Local(g)))

initiate_job_done(g, responses) ==
    /\ pc[g] = "initiate_job"
    /\ \E r \in responses : Resume(g, submit_after_initiate(Local(g), r))

upload_files_registered(g, responses, readables) ==
    /\ pc[g] = "upload_files"
    /\ \E r \in responses, readable \in readables :
           Resume(g, upload_after_register(Local(g), r, readable))

upload_files_put_done(g, responses, readables) ==
    /\ pc[g] = "put"
    /\ \E r \in responses, readable \in readables :
           Resume(g, upload_after_put(Local(g), r, readable))

start_job_done(g, responses) ==
    /\ pc[g] = "start_job"
    /\ \E r \in responses : Resume(g, submit_after_start(Local(g), r))

check_status_done(g, responses) ==
    /\ pc[g] = "check_status"
    /\ \E r \in responses : Resume(g, wait_after_status(Local(g), r))

sleep_done(g) ==
    /\ pc[g] = "sleep"
    /\ Resume(g, wait_after_sleep(Local(g)))

download_results_done(g, responses) ==
    /\ pc[g] = "download_results"
    /\ \E r \in responses : Resume(g, wait_after_download(Local(g), r))

artifact_get_done(g, responses) ==
    /\ pc[g] = "get"
    /\ \E r \in responses : Resume(g, fetch_after_get(Local(g), r))

\* faulty variant: the rows are taken in the order the coroutines ended
\* (asyncio.as_completed instead of asyncio.gather)
GatherResults_as_completed ==
    Flatten([k \in 1..Len(finish_order) |-> results[finish_order[k]]])

\* faulty variant: the groups whose job was never created are left out
GatherResults_skip_failed ==
    Flatten([g \in Groups |-> IF init_result[g].success THEN results[g] ELSE <<>>])

\* lines 484-489: gather's list holds the coroutines' rows in the order of
\* the tasks, whatever the order they ended in
GatherResults == Flatten(results)

\* faulty variant: the join ends as soon as one coroutine has returned
\* (asyncio.wait with FIRST_COMPLETED instead of asyncio.gather)
gather_return_first_done ==
    /\ main_pc = "gather"
    /\ \E g \in Groups : pc[g] = "done"
    /\ main_pc' = "returned"
    /\ all_results' = GatherResults
    /\ UNCHANGED <<inputVars, batches, finish_order, groupVars>>

\* line 484: every coroutine has returned; lines 487-509
gather_return ==
    /\ main_pc = "gather"
    /\ \A g \in Groups : pc[g] = "done"
    /\ main_pc' = "returned"
    /\ all_results' = GatherResults
    /\ UNCHANGED <<inputVars, batches, finish_order, groupVars>>

\* line 484: gather passes on the first exception of a coroutine; the
\* exception leaves transcribe_folder_batch and asyncio.run (line 524)
\* cancels the coroutines still pending
gather_raise ==
    /\ main_pc = "gather"
    /\ \E g \in Groups : pc[g] = "raised"
    /\ main_pc' = "raised"
    /\ pc' = [g \in Groups |-> IF pc[g] \in {"done", "raised"} THEN pc[g] ELSE "cancelled"]
    /\ UNCHANGED <<inputVars, batches, all_results, finish_order, calls, init_result,
                   upload_result, start_result, completion_result, upload_urls, idx,
                   elapsed, status_result, status, download_urls, results>>

\* ------------------------------------------------------- specifications
\* One job against every response the vendor sets above hold.
NextJob ==
    \/ return_no_files
    \/ launch
    \/ \E g \in Groups :
        \/ task_start(g)
        \/ initiate_job_done(g, CreateResponses)
        \/ upload_files_registered(g, RegisterResponses(Len(batches[g])), BOOLEAN)
        \/ upload_files_put_done(g, PutResponses, BOOLEAN)
        \/ start_job_done(g, StartResponses)
        \/ check_status_done(g, StatusResponses)
        \/ sleep_done(g)
        \/ download_results_done(g, DownloadResponses(Len(batches[g])))
        \/ artifact_get_done(g, ArtifactResponses)
    \/ gather_return
    \/ gather_raise

SpecJob == InitJob /\ [][NextJob]_vars

SpecPoll == InitPoll /\ [][NextJob]_vars

\* The coordinator up to the creation of the groups' coroutines.
NextSplit ==
    \/ return_no_files
    \/ launch

SpecSplit == InitSplit /\ [][NextSplit]_vars

\* One job of one file whose artifact carries any list of up to MaxSegments
\* segments, the speaker of each drawn from SpeakerIds; the requests before
\* the artifact have one response of every kind.
SpeakerIds ==
    {PyStr(<<d>>) : d \in {"0", "1", "2", "3", "4", "5", "6", "7", "9"}}
      \cup {PyInt(<<"0">>), PyNone, Absent}

Segments == {Entry(id, <<"hello">>, 15) : id \in SpeakerIds}

SegmentLists == UNION {[1..n -> Segments] : n \in 0..MaxSegments}

FormatArtifactResponses ==
    {Response(404, "text"), Response(200, "plain"), Response(200, "diar_empty"),
     Response(200, "diar_bad"), Response(200, "diar_text")}
      \cup {DataResponse(200, "diar", es) : es \in SegmentLists}

\* One job of up to MaxJobFiles files, each artifact carrying any list of up
\* to MaxSegments segments of the speakers "0" and "9".
RepeatSegmentLists ==
    UNION {[1..n -> {Entry(PyStr(<<d>>), <<"hello">>, 15) : d \in {"0", "9"}}] :
             n \in 0..MaxSegments}

RepeatArtifactResponses ==
    {Response(404, "text"), Response(200, "plain")}
      \cup {DataResponse(200, "diar", es) : es \in RepeatSegmentLists}

InitFormat ==
    \E n \in 0..1 : InitState(Files(n), 1, DefaultPollInterval, MaxWait)

\* Several jobs at once. Each request has one response of every kind the
\* code tells apart (success, non-success status, transport fault, a body of
\* the wrong shape), without the spellings and variants of the sets above.
BasicCreateResponses == {Fault, Response(500, "text"), Response(200, "map_id")}

BasicUrlInfos == {Absent, UrlString}

BasicRegisterResponses(n) ==
    {DataResponse(500, "text", <<>>)}
      \cup {DataResponse(200, "map", [i \in 1..n |-> u]) : u \in BasicUrlInfos}

BasicPutResponses == {Fault, Response(200, "none"), Response(500, "none")}

BasicStartResponses == {Response(500, "text"), Response(200, "map")}

BasicStatusResponses ==
    {DataResponse(200, "json", p) :
        p \in {Payload(PyStr(W_running), Absent, Absent, Absent, "list"),
               Payload(Absent, PyStr(Capitalize(W_completed)), Absent, Absent, "list"),
               Payload(PyStr(W_failed), Absent, Absent, PyStr(VendorText), "list"),
               NonMapPayload}}

BasicDownloadResponses(n) ==
    {DataResponse(500, "text", <<>>), DataResponse(200, "list", <<>>)}
      \cup {DataResponse(200, "map", u) : u \in [1..n -> BasicUrlInfos]}

BasicArtifactResponses ==
    {Response(404, "text"), Response(200, "notjson"),
     DataResponse(200, "diar", SampleEntries)}

Next ==
    \/ return_no_files
    \/ launch
    \/ \E g \in Groups :
        \/ task_start(g)
        \/ initiate_job_done(g, BasicCreateResponses)
        \/ upload_files_registered(g, BasicRegisterResponses(Len(batches[g])), {TRUE})
        \/ upload_files_put_done(g, BasicPutResponses, {TRUE})
        \/ start_job_done(g, BasicStartResponses)
        \/ check_status_done(g, BasicStatusResponses)
        \/ sleep_done(g)
        \/ download_results_done(g, BasicDownloadResponses(Len(batches[g])))
        \/ artifact_get_done(g, BasicArtifactResponses)
    \/ gather_return
    \/ gather_raise

Spec == Init /\ [][Next]_vars

NextFormat ==
    \/ return_no_files
    \/ launch
    \/ \E g \in Groups :
        \/ task_start(g)
        \/ initiate_job_done(g, BasicCreateResponses)
        \/ upload_files_registered(g, BasicRegisterResponses(Len(batches[g])), {TRUE})
        \/ upload_files_put_done(g, BasicPutResponses, {TRUE})
        \/ start_job_done(g, BasicStartResponses)
        \/ check_status_done(g, BasicStatusResponses)
        \/ sleep_done(g)
        \/ download_results_done(g, BasicDownloadResponses(Len(batches[g])))
        \/ artifact_get_done(g, FormatArtifactResponses)
    \/ gather_return
    \/ gather_raise

SpecFormat == InitFormat /\ [][NextFormat]_vars

NextRepeat ==
    \/ return_no_files
    \/ launch
    \/ \E g \in Groups :
        \/ task_start(g)
        \/ initiate_job_done(g, BasicCreateResponses)
        \/ upload_files_registered(g, BasicRegisterResponses(Len(batches[g])), {TRUE})
        \/ upload_files_put_done(g, BasicPutResponses, {TRUE})
        \/ start_job_done(g, BasicStartResponses)
        \/ check_status_done(g, BasicStatusResponses)
        \/ sleep_done(g)
        \/ download_results_done(g, BasicDownloadResponses(Len(batches[g])))
        \/ artifact_get_done(g, RepeatArtifactResponses)
    \/ gather_return
    \/ gather_raise

SpecRepeat == InitJob /\ [][NextRepeat]_vars


\* Several jobs at once, every awaited operation returning in the end: the
\* event loop resumes a coroutine whose network call or sleep has ended, and
\* the coordinator once the join has its results or its exception.
GroupIds == 1..MaxFiles

GroupStep(g) ==
    /\ g \in Groups
    /\ \/ task_start(g)
       \/ initiate_job_done(g, BasicCreateResponses)
       \/ upload_files_registered(g, BasicRegisterResponses(Len(batches[g])), {TRUE})
       \/ upload_files_put_done(g, BasicPutResponses, {TRUE})
       \/ start_job_done(g, BasicStartResponses)
       \/ check_status_done(g, BasicStatusResponses)
       \/ sleep_done(g)
       \/ download_results_done(g, BasicDownloadResponses(Len(batches[g])))
       \/ artifact_get_done(g, BasicArtifactResponses)

Fairness ==
    /\ WF_vars(return_no_files)
    /\ WF_vars(launch)
    /\ \A g \in GroupIds : WF_vars(GroupStep(g))
    /\ WF_vars(gather_return)
    /\ WF_vars(gather_raise)

SpecLive == Init /\ [][Next]_vars /\ Fairness


\* ================================================================ claims
\* the operations of the requests group g has issued, in order
Ops(g) == [i \in 1..Len(calls[g]) |-> calls[g][i].op]

\* how many requests of operation op group g has issued
Count(g, op) == Cardinality({i \in DOMAIN calls[g] : calls[g][i].op = op})

\* res is the result of a call that failed
Failed(res) == ~res.success /\ res.error.t # "absent"

\* each of files has exactly one row in rows
OneRowEach(files, rows) ==
    /\ Len(rows) = Len(files)
    /\ \A i \in DOMAIN files :
           Cardinality({k \in DOMAIN rows : rows[k].file = files[i]}) = 1

\* C1: whatever failed (job creation, registration, upload, start, a failure
\* status, the timeout, the download-files request, an artifact), the rows
\* transcribe_folder_batch returns hold exactly one row per input file, and
\* so do the rows each process_batch returns for its group.
C1_OneRowPerFile ==
    /\ main_pc = "returned" => OneRowEach(audio_files, all_results)
    /\ \A g \in Groups : pc[g] = "done" => OneRowEach(batches[g], results[g])

\* three files in two groups: the first job completes with one artifact
\* fetched and one that failed, the second job times out
C1_Witness ==
    /\ main_pc = "returned"
    /\ Len(audio_files) = 3
    /\ Len(batches) = 2
    /\ results[1][1].error = Success
    /\ results[1][2].error # Success
    /\ completion_result[1].status = PyStr(W_completed)
    /\ completion_result[2] = TimedOut

\* C2: no error is fatal to the run: no exception leaves process_batch or
\* the join of transcribe_folder_batch, whatever the vendor's responses hold.
C2_NoExceptionEscapes ==
    /\ main_pc # "raised"
    /\ \A g \in Groups : pc[g] # "raised"

\* C3: a group whose job-creation request failed has issued no other
\* request, and each of its files has a row whose Error is the reason
\* initiate_job gave.
C3_CreationFailureIsJobFatal ==
    \A g \in Groups :
        Failed(init_result[g]) =>
            /\ Ops(g) = <<"create">>
            /\ pc[g] \in {"done"}
            /\ results[g] = ErrorRows(batches[g], init_result[g].error)
            /\ init_result[g].error \in
                   {ApiError(500, VendorText), PyStr(FaultText), PyStr(ShapeText)}

\* a group of two files whose job-creation request got a non-success status
C3_Witness ==
    \E g \in Groups :
        /\ init_result[g] = Failure(ApiError(500, VendorText))
        /\ Len(batches[g]) = 2
        /\ pc[g] = "done"

\* C4: the returned rows are in the order of the input files, whatever the
\* order the groups ended in: the k-th row is the row of the k-th file.
C4_OriginalFileOrder ==
    main_pc = "returned" =>
        /\ Len(all_results) = Len(audio_files)
        /\ \A k \in DOMAIN all_results : all_results[k].file = audio_files[k]

\* the second group ended before the first
C4_Witness ==
    /\ main_pc = "returned"
    /\ Len(audio_files) = 3
    /\ finish_order = <<2, 1>>

\* the rows of group g within the returned rows
RowsOfGroup(g) ==
    LET before == Len(Flatten(SubSeq(batches, 1, g - 1)))
    IN SubSeq(all_results, before + 1, before + Len(batches[g]))

\* C5: groups are isolated. Scenario: with 3 files and batch_size 2, the first job completing
\* with every artifact fetched and the second job's creation failing, the
\* returned rows are 3, in file order, the first 2 with Error "Success" and
\* the last with the reason of the creation failure. In general the rows
\* returned for a group are the rows its own process_batch built, and no
\* step of one group changes the requests, rows or outcome of another.
C5_Scenario ==
    /\ main_pc = "returned" =>
           /\ Len(all_results) = Len(audio_files)
           /\ \A g \in Groups : RowsOfGroup(g) = results[g]
    /\ ( /\ main_pc = "returned"
         /\ Len(audio_files) = 3
         /\ batch_size = 2
         /\ completion_result[1].status = PyStr(W_completed)
         /\ Count(1, "get") = 2
         /\ \A i \in 1..2 : results[1][i].error = Success
         /\ Failed(init_result[2]) )
       => /\ Len(all_results) = 3
          /\ \A k \in 1..3 : all_results[k].file = audio_files[k]
          /\ all_results[1].error = Success
          /\ all_results[2].error = Success
          /\ all_results[3].error = init_result[2].error
          /\ all_results[3].error # Success

\* a step in which group g issues a request, builds rows or gets its
\* outcome leaves the requests, rows and outcome of every other group alone
C5_Step ==
    \A g \in Groups :
        ( \/ calls'[g] # calls[g]
          \/ results'[g] # results[g]
          \/ completion_result'[g] # completion_result[g] )
        => \A h \in Groups \ {g} :
               /\ calls'[h] = calls[h]
               /\ results'[h] = results[h]
               /\ completion_result'[h] = completion_result[h]

C5_GroupsIsolated == [](C5_Scenario) /\ [][C5_Step]_vars

\* the scenario, the second group having failed before the first ended
C5_Witness ==
    /\ main_pc = "returned"
    /\ Len(audio_files) = 3
    /\ batch_size = 2
    /\ \A i \in 1..2 : results[1][i].error = Success
    /\ Failed(init_result[2])
    /\ finish_order = <<2, 1>>


\* the payload of a status response the code reads as a map with a string
\* for its state
ReadablePayload(r) ==
    /\ check_status(r).shape = "map"
    /\ JobState(check_status(r)).t = "str"

\* s equals one of words, ignoring letter case
InIgnoringCase(s, words) == \E w \in words : Lower(s) = Lower(w)

DownloadCall(g) == Call("download", init_result[g].job_id, 0)

\* C6 as claimed: on a status payload whose state is a success word in any
\* letter case wait_for_completion stops polling and issues the
\* download-files request; on a failure word it stops polling and returns
\* a failed outcome without a download request.
C6_TerminalStatesAsClaimed ==
    \A g \in Groups :
        pc[g] = "check_status" =>
            \A r \in StatusResponses :
                LET st == JobState(check_status(r))
                    next == wait_after_status(Local(g), r)
                IN ReadablePayload(r) =>
                    /\ InIgnoringCase(st.v, SuccessStates) =>
                           /\ next.pc = "download_results"
                           /\ next.calls = Append(calls[g], DownloadCall(g))
                    /\ InIgnoringCase(st.v, FailureStates) =>
                           /\ next.pc = "done"
                           /\ next.calls = calls[g]

\* C6 (amended): on a success word in any letter case wait_for_completion
\* stops polling and calls download_results, which issues the download-files
\* request when it can read the payload's job_details; when it cannot, no
\* request is issued and the job ends as the error "Download failed: ...".
\* On a failure word in any letter case it stops polling and returns the
\* payload as the failed outcome, without a download request: every file
\* gets an error row. Any other state goes on to the sleep.
C6_TerminalStates ==
    \A g \in Groups :
        /\ pc[g] = "sleep" =>
               /\ ~InIgnoringCase(status[g].v, SuccessStates \cup FailureStates)
               /\ Count(g, "download") = 0
        /\ pc[g] = "download_results" =>
               /\ InIgnoringCase(status[g].v, SuccessStates)
               /\ calls[g][Len(calls[g])] = DownloadCall(g)
               /\ Count(g, "download") = 1
        /\ pc[g] = "check_status" =>
               \A r \in StatusResponses :
                   LET payload == check_status(r)
                       st == JobState(payload)
                       next == wait_after_status(Local(g), r)
                   IN ReadablePayload(r) =>
                       /\ ( InIgnoringCase(st.v, SuccessStates)
                            /\ payload.job_details = "list" ) =>
                              /\ next.pc = "download_results"
                              /\ next.calls = Append(calls[g], DownloadCall(g))
                       /\ ( InIgnoringCase(st.v, SuccessStates)
                            /\ payload.job_details = "bad" ) =>
                              /\ next.pc = "done"
                              /\ next.calls = calls[g]
                              /\ next.completion_result
                                    = DownloadFailed(Failure(PyStr(ShapeText)))
                       /\ InIgnoringCase(st.v, FailureStates) =>
                              /\ next.pc = "done"
                              /\ next.calls = calls[g]
                              /\ next.completion_result
                                    = Completion(payload.status, payload.error)
                              /\ \A i \in DOMAIN next.results :
                                     next.results[i].error # Success
                              /\ Len(next.results) = Len(batches[g])
                       /\ ~InIgnoringCase(st.v, SuccessStates \cup FailureStates) =>
                              next.pc = "sleep"

\* the state "SUCCEEDED" was read and the download-files request is out
C6_Witness ==
    \E g \in Groups :
        /\ pc[g] = "download_results"
        /\ status[g] = PyStr(Upper(W_succeeded))

\* ceil(w / p)
Ceil(w, p) == (w + p - 1) \div p

\* C7: wait_for_completion issues at most ceil(max_wait / poll_interval)
\* status requests; a job that times out has issued exactly that many and
\* no download request, and after the last of them the sleep ends in the
\* timed-out outcome. With poll_interval 10 and max_wait 25 that is 3.
C7_PollBound ==
    \A g \in Groups :
        /\ Count(g, "status") <= Ceil(max_wait, poll_interval)
        /\ (poll_interval = 10 /\ max_wait = 25) => Count(g, "status") <= 3
        /\ pc[g] \in {"check_status", "sleep"} =>
               /\ elapsed[g] = poll_interval * (Count(g, "status") - 1)
               /\ elapsed[g] < max_wait
        /\ ( pc[g] = "sleep"
             /\ Count(g, "status") = Ceil(max_wait, poll_interval) ) =>
               wait_after_sleep(Local(g)).completion_result = TimedOut
        /\ completion_result[g] = TimedOut =>
               /\ Count(g, "status") = Ceil(max_wait, poll_interval)
               /\ Count(g, "download") = 0
               /\ pc[g] = "done"
               /\ results[g] = ErrorRows(batches[g], PyStr(<<"Job timed out">>))

\* interval 10, maximum wait 25: timed out after 3 status requests
C7_Witness ==
    \E g \in Groups :
        /\ poll_interval = 10
        /\ max_wait = 25
        /\ completion_result[g] = TimedOut
        /\ Count(g, "status") = 3

\* x is a value that is present and not empty
NonEmpty(x) == x.t \notin {"absent", "none"} /\ x.v # <<>>

\* the first non-empty of the keys status, job_state, state; else "unknown"
FirstNonEmpty(payload) ==
    IF NonEmpty(payload.status) THEN payload.status
    ELSE IF NonEmpty(payload.job_state) THEN payload.job_state
    ELSE IF NonEmpty(payload.state) THEN payload.state
    ELSE PyStr(W_unknown)

OnlyJobStateCompleted ==
    Payload(Absent, PyStr(Capitalize(W_completed)), Absent, Absent, "list")

\* C8: the job state read from a status payload is the first non-empty value
\* of the keys status, job_state, state, in that order, and "unknown" when
\* there is none; a payload with only job_state = "Completed" is a terminal
\* success: the download-files request follows.
C8_StateKeyPriority ==
    \A g \in Groups :
        /\ pc[g] \in {"sleep", "download_results"} =>
               status[g] = FirstNonEmpty(status_result[g])
        /\ status_result[g] = OnlyJobStateCompleted => pc[g] = "download_results"
        /\ pc[g] = "check_status" =>
               \A r \in StatusResponses :
                   (~r.fault /\ r.status \in {200, 202} /\ r.body = "json"
                    /\ r.data.shape = "map") =>
                       /\ JobState(r.data) = FirstNonEmpty(r.data)
                       /\ r.data = OnlyJobStateCompleted =>
                              wait_after_status(Local(g), r).pc = "download_results"

\* the payload with only job_state = "Completed" was read, the download is out
C8_Witness ==
    \E g \in Groups :
        /\ pc[g] = "download_results"
        /\ status_result[g] = OnlyJobStateCompleted
        /\ status[g] = PyStr(Capitalize(W_completed))

\* C9: a group whose job-start request failed has issued no status and no
\* download request, has no outcome of wait_for_completion, and each of its
\* files has a row whose Error is the reason start_job gave.
C9_StartFailureIsJobFatal ==
    \A g \in Groups :
        Failed(start_result[g]) =>
            /\ calls[g][Len(calls[g])].op = "start"
            /\ Count(g, "start") = 1
            /\ Count(g, "status") = 0
            /\ Count(g, "download") = 0
            /\ Count(g, "get") = 0
            /\ completion_result[g] = NoCompletion
            /\ pc[g] = "done"
            /\ results[g] = ErrorRows(batches[g], start_result[g].error)
            /\ start_result[g].error \in
                   {ApiError(500, VendorText), PyStr(FaultText), PyStr(ShapeText)}

\* a group of two files whose job-start request got a non-success status
C9_Witness ==
    \E g \in Groups :
        /\ start_result[g] = Failure(ApiError(500, VendorText))
        /\ Len(batches[g]) = 2
        /\ pc[g] = "done"

\* the GET requests group g has issued for file f
Gets(g, f) == {i \in DOMAIN calls[g] : calls[g][i] = Call("get", Absent, f)}

\* the errors a row of a completed job may carry
PerFileErrors ==
    {Success, PyStr(<<"No download URL found">>),
     PyStr(<<"Download error: ">> \o FaultText),
     PyStr(<<"Download error: ">> \o ShapeText),
     PyStr(<<"Failed to download result: ", "404">>),
     PyStr(<<"Failed to download result: ", "202">>)}

\* C10: in a completed job an artifact that cannot be downloaded or decoded
\* gives an error row for its file only: the job stays completed, the rows
\* built before stay, every file with a download URL is requested exactly
\* once whatever happened to the files before it, and every file gets its
\* own row.
C10_ArtifactFailureIsPerFile ==
    \A g \in Groups :
        /\ pc[g] = "get" =>
               /\ completion_result[g].status = PyStr(W_completed)
               /\ Len(results[g]) = idx[g] - 1
               /\ \A i \in 1..(idx[g] - 1) :
                      /\ results[g][i].file = batches[g][i]
                      /\ results[g][i].error \in PerFileErrors
                      /\ Cardinality(Gets(g, batches[g][i]))
                             = IF Truthy(UrlAt(download_urls[g], i)) THEN 1 ELSE 0
               /\ calls[g][Len(calls[g])] = Call("get", Absent, batches[g][idx[g]])
        /\ ( pc[g] = "done"
             /\ completion_result[g].status = PyStr(W_completed) ) =>
               /\ Len(results[g]) = Len(batches[g])
               /\ \A i \in DOMAIN batches[g] :
                      /\ results[g][i].file = batches[g][i]
                      /\ results[g][i].error \in PerFileErrors
                      /\ Cardinality(Gets(g, batches[g][i]))
                             = IF results[g][i].error = PyStr(<<"No download URL found">>)
                               THEN 0 ELSE 1

\* the first file's artifact did not decode, the second file's was fetched
C10_Witness ==
    \E g \in Groups :
        /\ pc[g] = "done"
        /\ Len(batches[g]) = 2
        /\ results[g][1].error = PyStr(<<"Download error: ">> \o ShapeText)
        /\ results[g][2].error = Success
        /\ Cardinality(Gets(g, batches[g][2])) = 1

\* a PUT that failed: a transport fault or a status outside 200, 201, 204
FailedPut(r) == r.fault \/ r.status \notin {200, 201, 204}

\* C11: a failed transfer of one file's bytes, by a non-success response or
\* by a transport fault, does not abort the job: the next file that has a
\* target is uploaded, and after the last one the start request is issued.
C11_UploadFailureDoesNotAbort ==
    \A g \in Groups :
        pc[g] = "put" =>
            \A r \in PutResponses :
                LET next == upload_after_put(Local(g), r, TRUE)
                    j == NextTarget(upload_urls[g], idx[g] + 1)
                IN FailedPut(r) =>
                       IF j # 0
                       THEN /\ next.pc = "put"
                            /\ next.calls
                                 = Append(calls[g], Call("put", Absent, batches[g][j]))
                       ELSE /\ next.pc = "start_job"
                            /\ next.calls
                                 = Append(calls[g], Call("start", init_result[g].job_id, 0))

\* among the first upto files, each one without a descriptor in urls has the
\* row "No download URL found" at its position, no other row, and no GET
NoDescriptorRows(files, urls, rows, requests, upto) ==
    \A i \in 1..upto :
        GetInfo(urls, i).t = "absent" =>
            /\ rows[i] = NoUrlRow(files[i])
            /\ Cardinality({k \in DOMAIN rows : rows[k].file = files[i]}) = 1
            /\ \A k \in DOMAIN requests :
                   requests[k] # Call("get", Absent, files[i])

\* C12: in a completed job every file whose output has no download
\* descriptor gets exactly one row, with Error "No download URL found", and
\* no artifact request: for the files passed while the loop is at a GET, and
\* for all files once the response of the download-files request or of a GET
\* has let process_batch return.
C12_NoDownloadUrlRow ==
    \A g \in Groups :
        /\ pc[g] = "get" =>
               /\ NoDescriptorRows(batches[g], download_urls[g], results[g],
                                   calls[g], idx[g] - 1)
               /\ GetInfo(download_urls[g], idx[g]).t # "absent"
               /\ \A r \in ArtifactResponses :
                      LET next == fetch_after_get(Local(g), r)
                      IN /\ next.pc \in {"get", "done"}
                         /\ next.pc = "done" =>
                                /\ Len(next.results) = Len(batches[g])
                                /\ NoDescriptorRows(batches[g], download_urls[g],
                                                    next.results, next.calls,
                                                    Len(batches[g]))
        /\ pc[g] = "download_results" =>
               \A r \in DownloadResponses(Len(batches[g])) :
                   LET next == wait_after_download(Local(g), r)
                   IN ( next.pc = "done"
                        /\ next.completion_result.status = PyStr(W_completed) ) =>
                          /\ Len(next.results) = Len(batches[g])
                          /\ NoDescriptorRows(batches[g], r.data, next.results,
                                              next.calls, Len(batches[g]))

\* the first of two files has no descriptor and got its row without a GET,
\* the second file's artifact is being requested
C12_Witness ==
    \E g \in Groups :
        /\ pc[g] = "get"
        /\ idx[g] = 2
        /\ GetInfo(download_urls[g], 1) = Absent
        /\ results[g] = <<NoUrlRow(batches[g][1])>>
        /\ Count(g, "get") = 1

\* the positions <<k, i>> of the groups at which file f stands
PlacesOf(f) ==
    {ki \in (DOMAIN batches) \X (1..batch_size) :
        ki[2] <= Len(batches[ki[1]]) /\ batches[ki[1]][ki[2]] = f}

\* C13: once the coordinator has split the files, there are
\* ceil(n / batch_size) groups, every group is non-empty and holds at most
\* batch_size files, every group but the last holds exactly batch_size, the
\* groups concatenated in order are the input list, and each file stands in
\* exactly one group.
C13_Partition ==
    main_pc = "gather" =>
        /\ Len(batches) = Ceil(Len(audio_files), batch_size)
        /\ \A k \in DOMAIN batches :
               /\ Len(batches[k]) >= 1
               /\ Len(batches[k]) <= batch_size
               /\ k < Len(batches) => Len(batches[k]) = batch_size
        /\ Flatten(batches) = audio_files
        /\ \A i \in DOMAIN audio_files :
               Cardinality(PlacesOf(audio_files[i])) = 1

\* 7 files with batch_size 3: groups of 3, 3 and 1
C13_Witness ==
    /\ main_pc = "gather"
    /\ Len(audio_files) = 7
    /\ batch_size = 3
    /\ [k \in DOMAIN batches |-> Len(batches[k])] = <<3, 3, 1>>

\* group g's lifecycle has ended in an outcome: a failed submission stage or
\* what wait_for_completion returned
HasOutcome(g) ==
    \/ Failed(init_result[g])
    \/ Failed(upload_result[g])
    \/ Failed(start_result[g])
    \/ completion_result[g] # NoCompletion

\* C14: when the coordinator has returned, every group's coroutine has
\* returned with its lifecycle at a terminal outcome, none is in flight, and
\* the returned rows are the rows of all the groups, none left out.
C14_ReturnsAfterAllGroups ==
    main_pc = "returned" =>
        /\ \A g \in Groups : pc[g] = "done" /\ HasOutcome(g)
        /\ Len(finish_order) = Len(batches)
        /\ \A g \in Groups : \E k \in DOMAIN finish_order : finish_order[k] = g
        /\ all_results = Flatten(results)
        /\ \A g \in Groups : RowsOfGroup(g) = results[g]

\* returned after both groups ended: the first timed out, the second job was
\* never created
C14_Witness ==
    /\ main_pc = "returned"
    /\ Len(batches) = 2
    /\ completion_result[1] = TimedOut
    /\ Failed(init_result[2])
    /\ finish_order = <<2, 1>>

\* the number a digit stands for
DigitValue(d) == CHOOSE n \in 0..9 : Digit(n) = d

\* the label claimed for speaker id x
ClaimedLabel(x) ==
    IF x = PyStr(<<"0">>) THEN <<"Customer">>
    ELSE IF x = PyStr(<<"1">>) THEN <<"Agent">>
    ELSE IF x.t = "str" /\ Len(x.v) = 1 /\ x.v[1] \in {"2", "3", "4", "5", "6", "7"}
    THEN <<"Speaker ", Digit(DigitValue(x.v[1]) + 1)>>
    ELSE <<"Speaker ">> \o Str(x)

\* the line of a segment at 1.5 s saying "hello", with the given label
LineWith(label) == <<"[", "1", ".", "5", "s] ">> \o label \o <<": ", "hello">>

\* C15: the label of speaker id "0" is Customer, of "1" Agent, of "k" for k
\* in 2..7 "Speaker k+1", and of every other id x "Speaker x" ("9" gives
\* "Speaker 9"): the row built from an artifact with one segment carries the
\* line with that label.
C15_SpeakerLabels ==
    \A g \in Groups :
        pc[g] = "get" =>
            \A r \in FormatArtifactResponses :
                (r.body = "diar" /\ Len(r.data) = 1) =>
                    LET row == fetch_after_get(Local(g), r).results[idx[g]]
                        id == SpeakerIdOf(r.data[1])
                    IN /\ row.error = Success
                       /\ row.diarized = LineWith(ClaimedLabel(id))
                       /\ id = PyStr(<<"9">>) =>
                              row.diarized = LineWith(<<"Speaker ", "9">>)
                       /\ id = PyStr(<<"2">>) =>
                              row.diarized = LineWith(<<"Speaker ", "3">>)
                       /\ id = PyStr(<<"7">>) =>
                              row.diarized = LineWith(<<"Speaker ", "8">>)

\* a row was built from an artifact whose only segment has speaker id "9"
C15_Witness ==
    \E g \in Groups :
        /\ pc[g] = "done"
        /\ Len(results[g]) = 1
        /\ results[g][1].error = Success
        /\ results[g][1].diarized = LineWith(<<"Speaker ", "9">>)

RECURSIVE JoinedUpTo(_, _)
\* the first k of lines, each after the first on a new line
JoinedUpTo(lines, k) ==
    IF k = 0 THEN <<>>
    ELSE IF k = 1 THEN lines[1]
    ELSE JoinedUpTo(lines, k - 1) \o <<"\n">> \o lines[k]

\* the text claimed for the segments es: a function of es and nothing else,
\* one line per segment in the order of es
ClaimedText(es) ==
    JoinedUpTo([k \in 1..Len(es) |-> LineWith(ClaimedLabel(SpeakerIdOf(es[k])))],
               Len(es))

\* the number of lines of a text
NumLines(text) ==
    IF text = <<>> THEN 0
    ELSE 1 + Cardinality({k \in DOMAIN text : text[k] = "\n"})

CarriesSegments(r) ==
    \/ r.body = "diar" /\ r.data # <<>>
    \/ r.body = "diar_bad"

\* response r is an artifact that was fetched and decoded as a map
DecodedArtifact(r) ==
    ~r.fault /\ r.status = 200 /\ r.body \notin {"notjson", "list"}

\* C17 as claimed: the formatter is called only for a decoded artifact that
\* carries a non-empty list of segments; for any other decoded artifact the
\* row has the empty Diarized Transcript and the Error "Success".
C17_FormatOnlySegments ==
    \A g \in Groups :
        pc[g] = "get" =>
            \A r \in FormatArtifactResponses :
                DecodedArtifact(r) =>
                    LET row == fetch_after_get(Local(g), r).results[idx[g]]
                    IN /\ FormatAttempted(r) => CarriesSegments(r)
                       /\ ~CarriesSegments(r) =>
                              /\ row.diarized = <<>>
                              /\ row.error = Success

\* the decoded artifact of response r has no segments: the key is absent or
\* the list is empty
NoSegments(r) ==
    \/ r.body \in {"plain", "diar_empty"}
    \/ r.body = "diar" /\ r.data = <<>>

\* C17 (amended): the formatter is called exactly when the value of the
\* artifact's entries is true in Python's sense: a non-empty list, or another
\* non-empty value such as a text, for which formatting raises and the file
\* gets a "Download error" row. When the segments are absent or the list is
\* empty, the formatter is not called, the Diarized Transcript is empty and
\* the row is a "Success" row that keeps its transcript and language.
C17_FormatWhenTruthy ==
    \A g \in Groups :
        pc[g] = "get" =>
            \A r \in FormatArtifactResponses :
                DecodedArtifact(r) =>
                    LET row == fetch_after_get(Local(g), r).results[idx[g]]
                    IN /\ FormatAttempted(r) <=>
                              (CarriesSegments(r) \/ r.body = "diar_text")
                       /\ FormatAttempted(r) <=> ~NoSegments(r)
                       /\ NoSegments(r) =>
                              /\ row.diarized = <<>>
                              /\ row.error = Success
                              /\ row.transcript = <<"hello namaste">>
                              /\ row.language = <<"hi-IN">>
                       /\ r.body = "diar_text" =>
                              row = ErrorRow(batches[g][idx[g]],
                                             PyStr(<<"Download error: ">> \o ShapeText))
                       /\ (r.body = "diar" /\ r.data # <<>>) =>
                              /\ row.error = Success
                              /\ row.diarized # <<>>

\* a file whose artifact decoded without segments has a Success row with
\* its transcript and an empty Diarized Transcript
C17_Witness ==
    \E g \in Groups :
        /\ pc[g] = "done"
        /\ Len(results[g]) = 1
        /\ results[g][1].error = Success
        /\ results[g][1].transcript = <<"hello namaste">>
        /\ results[g][1].diarized = <<>>

\* registration response r is successful and holds a target for none of
\* the files: no descriptor, or a descriptor without a URL
SuccessWithoutTargets(r) ==
    /\ ~r.fault
    /\ r.status \in {200, 202}
    /\ r.body = "map"
    /\ \A i \in DOMAIN r.data :
           r.data[i] = Absent \/ FileUrl(r.data[i]) \in {PyNone, PyStr(<<>>)}

\* C18: on a successful registration response without upload targets the
\* upload step succeeds at once: no PUT is issued for any file, whether the
\* files can be read or not, and the next request is the start of the job.
\* A PUT is only ever issued for a file that has a target.
C18_NoTargetsSkipsUpload ==
    \A g \in Groups :
        /\ pc[g] = "upload_files" =>
               \A r \in RegisterResponses(Len(batches[g])), readable \in BOOLEAN :
                   SuccessWithoutTargets(r) =>
                       LET next == upload_after_register(Local(g), r, readable)
                       IN /\ next.pc = "start_job"
                          /\ next.upload_result.success
                          /\ next.calls
                               = Append(calls[g], Call("start", init_result[g].job_id, 0))
        /\ pc[g] = "put" =>
               /\ HasTarget(upload_urls[g], idx[g])
               /\ calls[g][Len(calls[g])] = Call("put", Absent, batches[g][idx[g]])

\* the start request of a job of two files is out, after a successful
\* registration and without any PUT
C18_Witness ==
    \E g \in Groups :
        /\ pc[g] = "start_job"
        /\ Len(batches[g]) = 2
        /\ upload_result[g].success
        /\ Count(g, "put") = 0
        /\ Ops(g) = <<"create", "register", "start">>

\* the place of a request in the lifecycle of a job
Stage(op) ==
    CASE op = "create" -> 1
      [] op = "register" -> 2
      [] op = "put" -> 3
      [] op = "start" -> 4
      [] op = "status" -> 5
      [] op = "download" -> 6
      [] op = "get" -> 7

\* the requests of group g follow the lifecycle: create first, then the
\* stages in order, none of create, register, start, download-files twice,
\* and none without the stage before it
InLifecycleOrder(g) ==
    LET ops == Ops(g)
    IN /\ ops # <<>> => ops[1] = "create"
       /\ \A i \in 1..(Len(ops) - 1) : Stage(ops[i]) <= Stage(ops[i + 1])
       /\ \A op \in {"create", "register", "start", "download"} : Count(g, op) <= 1
       /\ Count(g, "put") > 0 => Count(g, "register") = 1
       /\ Count(g, "start") > 0 => Count(g, "register") = 1
       /\ Count(g, "status") > 0 => Count(g, "start") = 1
       /\ Count(g, "download") > 0 => Count(g, "status") > 0
       /\ Count(g, "get") > 0 => Count(g, "download") = 1

\* a stage of group g was requested only after the stage before it succeeded
AfterSuccessOnly(g) ==
    /\ Count(g, "register") > 0 => init_result[g].success
    /\ Count(g, "start") > 0 => upload_result[g].success
    /\ Count(g, "status") > 0 => start_result[g].success
    /\ pc[g] = "download_results" => InIgnoringCase(status[g].v, SuccessStates)
    /\ Count(g, "get") > 0 => completion_result[g].status = PyStr(W_completed)

\* the outcomes of a lifecycle
IsCompleted(g) == completion_result[g].status = PyStr(W_completed)

IsTimedOut(g) == completion_result[g] = TimedOut

IsFailed(g) ==
    \/ Failed(init_result[g])
    \/ Failed(upload_result[g])
    \/ Failed(start_result[g])
    \/ /\ completion_result[g] # NoCompletion
       /\ ~IsCompleted(g)
       /\ ~IsTimedOut(g)

\* C19: the requests of a group follow the order create, register (with
\* uploads), start, status polls, download-files, each stage after the
\* success of the one before and none of create, register, start,
\* download-files more than once; and a lifecycle that has ended, has ended
\* in exactly one of Completed, Failed, TimedOut.
C19_Lifecycle ==
    \A g \in Groups :
        /\ InLifecycleOrder(g)
        /\ AfterSuccessOnly(g)
        /\ pc[g] \in {"done", "raised"} =>
               Cardinality({o \in {"Completed", "Failed", "TimedOut"} :
                              \/ o = "Completed" /\ IsCompleted(g)
                              \/ o = "Failed" /\ IsFailed(g)
                              \/ o = "TimedOut" /\ IsTimedOut(g)}) = 1

JobRequests == {"register", "start", "status", "download"}

\* C21: whenever initiate_job reports success, its job_id is an identifier
\* the vendor issued, and no registration, start, status or download-files
\* request is sent with an absent (null) job identifier.
C21_JobIdPresent ==
    \A g \in Groups :
        /\ init_result[g].success => init_result[g].job_id = VendorJobId
        /\ \A i \in DOMAIN calls[g] :
               calls[g][i].op \in JobRequests =>
                   calls[g][i].job \notin {PyNone, Absent}

\* how many status requests a list of requests holds
StatusCount(requests) ==
    Cardinality({i \in DOMAIN requests : requests[i].op = "status"})

\* a status request of group g is in flight
StatusInFlight(g) == pc[g] = "check_status"

\* a step that issues a status request of group g issues one, while none of
\* g is in flight: the first after the start request has returned, every
\* later one after the sleep that followed the return of the one before,
\* with elapsed advanced by poll_interval
C22_Step ==
    \A g \in Groups :
        StatusCount(calls'[g]) # StatusCount(calls[g]) =>
            /\ StatusCount(calls'[g]) = StatusCount(calls[g]) + 1
            /\ calls'[g] = Append(calls[g], Call("status", init_result[g].job_id, 0))
            /\ ~StatusInFlight(g)
            /\ pc'[g] = "check_status"
            /\ IF StatusCount(calls[g]) = 0
               THEN pc[g] = "start_job" /\ elapsed'[g] = 0
               ELSE /\ pc[g] = "sleep"
                    /\ calls[g][Len(calls[g])].op = "status"
                    /\ elapsed'[g] = elapsed[g] + poll_interval

\* while a status request of group g is in flight it is the last request g
\* issued, and one delay lies between every two status requests of g
C22_State ==
    \A g \in Groups :
        /\ StatusInFlight(g) =>
               /\ calls[g][Len(calls[g])].op = "status"
               /\ elapsed[g] = poll_interval * (StatusCount(calls[g]) - 1)
        /\ pc[g] = "sleep" =>
               /\ calls[g][Len(calls[g])].op = "status"
               /\ elapsed[g] = poll_interval * (StatusCount(calls[g]) - 1)

\* C22: the status polls of one job are strictly sequential: a status
\* request is issued only after the one before has returned and the sleep of
\* poll_interval has been taken, so at most one status request of a job is
\* in flight, also while the polls of another job interleave with it.
C22_SequentialPolls == [](C22_State) /\ [][C22_Step]_vars

\* two jobs are each at their second status request, both in flight
C22_Witness ==
    /\ Len(batches) = 2
    /\ \A g \in Groups : StatusInFlight(g) /\ StatusCount(calls[g]) = 2

\* status response r failed at transport or HTTP level: a transport fault,
\* a status other than 200 and 202, or a body that cannot be decoded
FailedStatusRequest(r) ==
    r.fault \/ r.status \notin {200, 202} \/ r.body = "notjson"

\* the reason check_status gives for a failed request
StatusFailureReason(r) ==
    IF r.fault THEN PyStr(FaultText)
    ELSE IF r.status \notin {200, 202} THEN PyStr(VendorText)
    ELSE PyStr(ShapeText)

\* C23: one status request that fails at transport or HTTP level ends the
\* polling at once as a job failure, although wait budget remains: no
\* further status request and no download-files request is issued, and
\* every file of the group gets an error row, with the reason of the failure.
C23_StatusFailureEndsJob ==
    \A g \in Groups :
        /\ pc[g] = "check_status" =>
               /\ elapsed[g] < max_wait
               /\ \A r \in StatusResponses :
                      FailedStatusRequest(r) =>
                          LET next == wait_after_status(Local(g), r)
                          IN /\ next.pc = "done"
                             /\ next.calls = calls[g]
                             /\ next.completion_result
                                  = Completion(PyStr(W_error), StatusFailureReason(r))
                             /\ next.results
                                  = ErrorRows(batches[g], StatusFailureReason(r))
                             /\ \A i \in DOMAIN batches[g] :
                                    /\ next.results[i].file = batches[g][i]
                                    /\ next.results[i].error # Success
        /\ completion_result[g] = Completion(PyStr(W_error), PyStr(FaultText)) =>
               /\ pc[g] = "done"
               /\ calls[g][Len(calls[g])].op = "status"
               /\ Count(g, "download") = 0
               /\ Count(g, "get") = 0
               /\ results[g] = ErrorRows(batches[g], PyStr(FaultText))

\* the first status request of a job of two files met a transport fault:
\* the job has ended after that one poll, with 15 seconds of budget left
C23_Witness ==
    \E g \in Groups :
        /\ completion_result[g] = Completion(PyStr(W_error), PyStr(FaultText))
        /\ Len(batches[g]) = 2
        /\ Count(g, "status") = 1
        /\ poll_interval * Count(g, "status") < max_wait
        /\ pc[g] = "done"

\* registration response r failed: a transport fault or a status other than
\* 200 and 202
FailedRegistration(r) == r.fault \/ r.status \notin {200, 202}

\* the reason upload_files gives for a failed registration
RegistrationFailureReason(r) ==
    IF r.fault THEN PyStr(FaultText) ELSE ApiError(r.status, VendorText)

\* C24: a file-registration request that failed, by a non-200/202 response
\* or a transport fault, is fatal to the job: no PUT, no start request and no
\* status request is issued, and every file of the group gets an error row
\* with the reason of the registration failure.
C24_RegistrationFailureIsJobFatal ==
    \A g \in Groups :
        /\ pc[g] = "upload_files" =>
               /\ Ops(g) = <<"create", "register">>
               /\ \A r \in RegisterResponses(Len(batches[g])), readable \in BOOLEAN :
                      FailedRegistration(r) =>
                          LET next == upload_after_register(Local(g), r, readable)
                          IN /\ next.pc = "done"
                             /\ next.calls = calls[g]
                             /\ next.upload_result
                                  = Failure(RegistrationFailureReason(r))
                             /\ next.results
                                  = ErrorRows(batches[g], RegistrationFailureReason(r))
                             /\ \A i \in DOMAIN batches[g] :
                                    /\ next.results[i].file = batches[g][i]
                                    /\ next.results[i].error # Success
        /\ Failed(upload_result[g]) =>
               /\ pc[g] = "done"
               /\ Count(g, "start") = 0
               /\ Count(g, "status") = 0
               /\ Count(g, "download") = 0
               /\ completion_result[g] = NoCompletion
               /\ results[g] = ErrorRows(batches[g], upload_result[g].error)
        /\ upload_result[g] = Failure(ApiError(500, VendorText)) =>
               Ops(g) = <<"create", "register">>

\* a group of two files whose registration request got a non-success status
C24_Witness ==
    \E g \in Groups :
        /\ upload_result[g] = Failure(ApiError(500, VendorText))
        /\ Len(batches[g]) = 2
        /\ pc[g] = "done"
        /\ Ops(g) = <<"create", "register">>

\* download-files response r failed: a transport fault, a status other than
\* 200 and 202, or a body that cannot be decoded
FailedDownloadRequest(r) ==
    r.fault \/ r.status \notin {200, 202} \/ r.body = "notjson"

\* the text x starts with "Download failed: "
StartsWithDownloadFailed(x) ==
    x.t = "str" /\ Len(x.v) >= 1 /\ x.v[1] = "Download failed: "

\* each of files has its row in rows, an error row that starts with
\* "Download failed: "
DownloadFailedRows(files, rows) ==
    /\ Len(rows) = Len(files)
    /\ \A i \in DOMAIN files :
           /\ rows[i].file = files[i]
           /\ StartsWithDownloadFailed(rows[i].error)
           /\ rows[i] = ErrorRow(files[i], rows[i].error)

\* C25: when a success state was read and the download-files request then
\* fails, the job ends as an error: no artifact is requested for any file of
\* the group, and every file gets an error row whose Error starts with
\* "Download failed:".
C25_DownloadFailureIsJobError ==
    \A g \in Groups :
        /\ pc[g] = "download_results" =>
               /\ IsSuccessState(status[g])
               /\ Count(g, "get") = 0
               /\ \A r \in DownloadResponses(Len(batches[g])) :
                      FailedDownloadRequest(r) =>
                          LET next == wait_after_download(Local(g), r)
                          IN /\ next.pc = "done"
                             /\ next.calls = calls[g]
                             /\ next.completion_result.status = PyStr(W_error)
                             /\ StartsWithDownloadFailed(next.completion_result.error)
                             /\ DownloadFailedRows(batches[g], next.results)
        /\ ( completion_result[g].status = PyStr(W_error)
             /\ StartsWithDownloadFailed(completion_result[g].error) ) =>
               /\ pc[g] = "done"
               /\ Count(g, "get") = 0
               /\ DownloadFailedRows(batches[g], results[g])

\* the download-files request of a job of two files got a non-success
\* status after a success state was read
C25_Witness ==
    \E g \in Groups :
        /\ completion_result[g]
             = DownloadFailed(Failure(ApiError(500, VendorText)))
        /\ Len(batches[g]) = 2
        /\ Count(g, "download") = 1
        /\ Count(g, "get") = 0
        /\ pc[g] = "done"

\* C26: with every network call returning in the end, a positive poll
\* interval and a finite maximum wait, whatever the vendor reports, every
\* group's lifecycle ends in one of Completed, Failed, TimedOut and
\* transcribe_folder_batch returns in the end.
C26_EventuallyReturns ==
    <>( /\ main_pc = "returned"
        /\ \A g \in Groups : IsCompleted(g) \/ IsFailed(g) \/ IsTimedOut(g) )

\* a row whose Error is not "Success" has the Detected Language "error" and
\* an empty Transcript and Diarized Transcript
ErrorRowShape(row) ==
    row.error # Success =>
        /\ row.language = <<"error">>
        /\ row.transcript = <<>>
        /\ row.diarized = <<>>

\* the artifact of response r was fetched with status 200 and its body
\* decoded without error
FetchedAndDecoded(r) == ~r.fault /\ r.status = 200 /\ r.body # "notjson"

====
